---- MODULE Spec2Model ----
(***************************************************************************)
(* A model of the content store (src/src/content-store.ts, lines 1-281),   *)
(* its hasher (same file, lines 478-588) and its entry model               *)
(* (src/src/entries.ts, lines 24-44).                                      *)
(*                                                                         *)
(* The file system is modelled by four tables: the inodes (the bytes of a  *)
(* regular file and whether its writer has written them all), the cache    *)
(* paths `location/hh/hh/rest` keyed by hash, the temporary names inside   *)
(* the cache root, and the destinations outside the store.  A hard link    *)
(* shares the inode, a symbolic link names a cache path.                   *)
(*                                                                         *)
(* A hash is the text that is digested, written as a sequence of tokens:   *)
(* the digest primitive is modelled as injective on that text.             *)
(***************************************************************************)
EXTENDS Integers, Sequences, FiniteSets, TLC

\* ------------------------------------------------------ bounds
MaxCalls == 3        \* public calls issued, over all store instances
MaxRestarts == 1     \* store instances constructed later on the same location
MaxActive == 2       \* public calls in progress at the same time

\* ----------------------------------------------------- entries
FileEntry(n, h) == [name |-> n, hash |-> h]
DirectoryEntry(n, h, fs) == [name |-> n, hash |-> h, files |-> fs]

\* A test of the length of `files` in place of the test of `files`.
isDirectoryNonEmpty(entry) == "files" \in DOMAIN entry /\ entry.files # <<>>

\* !!entry.files and !entry.files: `files` is undefined in a file entry and an
\* array, which is truthy even when empty, in a directory entry.
isDirectory(entry) == "files" \in DOMAIN entry
isFile(entry) == ~("files" \in DOMAIN entry)

\* ------------------------------------------------------ hasher
\* hash.digest('hex') of a file's bytes; the sentinel of hashDir; the value of
\* HashTransformStream.hash before _flush has run.
Digest(c) == <<"sha", c>>
Missing == <<"missing">>
NullHash == <<"null">>

\* The hasher of lines 478-588 is written for the entries of entries.ts lines
\* 1-21, whose names are the fields `file` and `directory`; the store of lines
\* 1-281 reads `name`, the field of entries.ts lines 24-44, which is the one
\* used here.
\* JSON.stringify of the reduced list: a directory is reduced to {dirctory, hash},
\* a file entry is passed through.
RECURSIVE StringifyWhole(_)
StringifyWhole(entries) ==
  IF entries = <<>> THEN <<>>
  ELSE LET data == Head(entries)
       IN <<"{", "name", data.name, "hash">> \o data.hash
            \o (IF isDirectory(data)
                  THEN <<"files", "[">> \o StringifyWhole(data.files) \o <<"]">>
                  ELSE <<>>)
            \o <<"}">> \o StringifyWhole(Tail(entries))

RECURSIVE Stringify(_)
Stringify(entries) ==
  IF entries = <<>> THEN <<>>
  ELSE LET data == Head(entries)
           key == IF isDirectory(data) THEN "dirctory" ELSE "name"
       IN <<"{", key, data.name, "hash">> \o data.hash \o <<"}">>
            \o Stringify(Tail(entries))

hashEntriesUnordered(entries) ==
  <<"[", {Stringify(<<entries[i]>>) : i \in 1..Len(entries)}, "]">>

hashEntries(entries) == <<"[">> \o Stringify(entries) \o <<"]">>

\* The names the model uses, in the order files.sort() gives them.
NameOrder == <<"s", "t", "x", "y", "z">>
SortNames(S) == SelectSeq(NameOrder, LAMBDA n : n \in S)

\* A source directory is a function from child names to nodes.
SrcFile(c) == [kind |-> "file", content |-> c, children |-> <<>>]
SrcDangling == [kind |-> "dangling", content |-> "", children |-> <<>>]
SrcDir(ch) == [kind |-> "dir", content |-> "", children |-> ch]
\* A file that cannot be opened for reading, a child whose stat fails with an
\* error other than ENOENT, a directory whose readdir fails.
SrcUnreadable == [kind |-> "unreadable", content |-> "", children |-> <<>>]
SrcDenied == [kind |-> "denied", content |-> "", children |-> <<>>]
SrcLocked == [kind |-> "locked", content |-> "", children |-> <<>>]

RECURSIVE hashDir(_)
hashDir(directory) ==
  LET files == SortNames(DOMAIN directory)
  IN [i \in 1..Len(files) |->
        LET file == files[i]
            node == directory[file]
        IN IF node.kind = "dangling" THEN FileEntry(file, Missing)
           ELSE IF node.kind = "file" THEN FileEntry(file, Digest(node.content))
           ELSE LET result == hashDir(node.children)
                IN DirectoryEntry(file, hashEntries(result), result)]

\* The filter of the tests: drop the file entries named `drop`, recompute the
\* hash of every directory bottom-up.
RECURSIVE filter(_, _)
filter(entries, drop) ==
  LET kept == SelectSeq(entries, LAMBDA e : isDirectory(e) \/ e.name # drop)
  IN [i \in 1..Len(kept) |->
        IF isDirectory(kept[i])
        THEN LET newFiles == filter(kept[i].files, drop)
             IN DirectoryEntry(kept[i].name, hashEntries(newFiles), newFiles)
        ELSE kept[i]]

\* ------------------------------------------------------ inputs
\* test/{dir1,dir2} of the tests, cut down: two identical sub-directories and a
\* file with the content of their files.
TreeA == ("s" :> SrcDir("x" :> SrcFile("a"))) @@ ("t" :> SrcDir("x" :> SrcFile("a")))
           @@ ("y" :> SrcFile("a"))
\* A directory whose only child is a symbolic link to a deleted file.
TreeB == ("z" :> SrcDangling)
Trees == {TreeA, TreeB}

FileInputs == {"a"}
\* The bytes of the streams: those of the file and others.
StreamInputs == {"a", "b"}
TmpNames == {"tmp-1", "tmp-2"}
Dests == {"d1", "d2"}

\* A virtual directory: the entries of a tree without the files of one name, a
\* description of a directory that never existed.
Virtuals == {[directory |-> TreeA, drop |-> "y"]}

RealizeHashes == {Digest("a"), hashEntries(hashDir(TreeA))}

\* ------------------------------------------------------- state
VARIABLES
  inodes,     \* inode -> [content, state]: "writing" until the copy into it is
              \* reported, then "partial" until its writer has written every byte,
              \* then "full"
  cache,      \* hash -> [kind, ino, links]: what is at cacheNameOfHash(hash)
  tmp,        \* temporary name -> inode
  dest,       \* destination -> [type, to]
  entering,   \* ContentStore.entering: hash -> "pending" | "resolved" | "rejected"
  ops,        \* hash -> the ingestion routine started for it
  calls,      \* the public calls of this store instance: a bag of call records
  started,    \* hash -> how many ingestion routines were started for it
  writes,     \* hash -> how many times bytes were copied or linked to its cache path
  issued,     \* how many public calls were issued, over all store instances
  restarts,   \* how many store instances were constructed after the first
  hashing,    \* one hashDir call of the hasher, taken callback by callback
  hashed,     \* two lists of entries and what hashEntries gives for them
  located     \* two hashes and what cacheNameOfHash gives for them

vars == <<inodes, cache, tmp, dest, entering, ops, calls, started, writes, issued,
          restarts, hashing, hashed, located>>

Count(f, h) == IF h \in DOMAIN f THEN f[h] ELSE 0
Bump(f, h) == [x \in DOMAIN f \cup {h} |-> Count(f, x) + IF x = h THEN 1 ELSE 0]
Put(f, k, v) == [x \in DOMAIN f \cup {k} |-> IF x = k THEN v ELSE f[x]]
Drop(f, k) == [x \in DOMAIN f \ {k} |-> f[x]]
\* One copy less of `x` in the bag `f`; `x` replaced by `y` in it.
Take(f, x) == IF f[x] = 1 THEN Drop(f, x) ELSE [f EXCEPT ![x] = @ - 1]
Swap(f, x, y) == Bump(Take(f, x), y)

\* No hashDir call is taken apart: the store uses hashDir as a function.
NoHashing == [root |-> <<>>, calls |-> <<>>, caller |-> "none"]

\* The file system and the counters before anything has run.
Fresh ==
  /\ inodes = <<>>
  /\ cache = <<>>
  /\ tmp = <<>>
  /\ dest = <<>>
  /\ entering = <<>>
  /\ ops = <<>>
  /\ calls = <<>>
  /\ started = <<>>
  /\ writes = <<>>
  /\ issued = 0
  /\ restarts = 0

\* hashEntries is not under observation.
NoHashed == [left |-> <<>>, right |-> <<>>, hashes |-> <<>>]

\* cacheNameOfHash is not under observation.
NoLocated == [left |-> <<>>, right |-> <<>>, names |-> <<>>]

Init == Fresh /\ hashing = NoHashing /\ hashed = NoHashed /\ located = NoLocated

\* An existence test that never finds the cache path.
existspNever(hash) == FALSE

\* existsp(this.cacheNameOfHash(hash)), lines 12-18: something is at the cache path.
existsp(hash) == hash \in DOMAIN cache

\* ---------------------------------------------------------------- in-flight table
\* `this.entering[hash]` read as a condition: true when a promise is stored.
HasSlot(table, hash) == hash \in DOMAIN table

\* The three tables one synchronous turn of the store updates together.
Slots == [entering |-> entering, ops |-> ops, started |-> started]

\* `found` says that the existence test of enterHashedStream found the cache path.
NoOp == [kind |-> "none", pc |-> "done", entries |-> <<>>, tmpFile |-> "",
         todo |-> {}, made |-> FALSE, found |-> FALSE]

\* A routine whose promise is stored as if it had resolved at once.
StartImplResolved(st, hash, kind, entries, tmpFile) ==
  [entering |-> Put(st.entering, hash, "resolved"),
   ops |-> Put(st.ops, hash, [NoOp EXCEPT !.kind = kind, !.pc = "exists",
                                         !.entries = entries, !.tmpFile = tmpFile]),
   started |-> Bump(st.started, hash)]

\* `this.entering[hash] = impl(...)`: the routine runs up to its first await
\* (the existence test of the cache path) and its promise is stored.
StartImpl(st, hash, kind, entries, tmpFile) ==
  [entering |-> Put(st.entering, hash, "pending"),
   ops |-> Put(st.ops, hash, [NoOp EXCEPT !.kind = kind, !.pc = "exists",
                                         !.entries = entries, !.tmpFile = tmpFile]),
   started |-> Bump(st.started, hash)]

\* enterHashedFile without the test of the in-flight table.
enterHashedFileUnchecked(st, hash) == StartImpl(st, hash, "file", <<>>, "")

enterHashedFile(st, hash) ==
  IF HasSlot(st.entering, hash) THEN st
  ELSE StartImpl(st, hash, "file", <<>>, "")

\* enterHashedDirectory that stores a new promise over the one in the table.
enterHashedDirectoryReplacing(st, entries, hash) ==
  StartImpl(st, hash, "dir", entries, "")

enterHashedDirectory(st, entries, hash) ==
  IF HasSlot(st.entering, hash) THEN st
  ELSE StartImpl(st, hash, "dir", entries, "")

enterHashedVirtualDirectory(st, hash, entries) ==
  IF HasSlot(st.entering, hash) THEN st
  ELSE StartImpl(st, hash, "vdir", entries, "")

ensureEntry(st, entry) ==
  IF HasSlot(st.entering, entry.hash) THEN st
  ELSE IF isDirectory(entry) THEN enterHashedDirectory(st, entry.files, entry.hash)
  ELSE enterHashedFile(st, entry.hash)

\* entries.map(entry => this.ensureEntry(directory, entry)): one turn, in order.
RECURSIVE EnsureAll(_, _)
EnsureAll(st, entries) ==
  IF entries = <<>> THEN st
  ELSE EnsureAll(ensureEntry(st, Head(entries)), Tail(entries))

\* The directory entries of entries.map(...) in enterHashVirtualDirectoryImpl:
\* each calls enterHashedVirtualDirectory in the same turn, in order.
RECURSIVE EnterVirtualChildren(_, _)
EnterVirtualChildren(st, entries) ==
  IF entries = <<>> THEN st
  ELSE LET entry == Head(entries)
           next == IF isDirectory(entry)
                   THEN enterHashedVirtualDirectory(st, entry.hash, entry.files)
                   ELSE st
       IN EnterVirtualChildren(next, Tail(entries))

\* The in-flight slot of `hash` settles: a pending promise resolves or rejects,
\* a settled one stays as it is.
Settle(table, hash, how) ==
  IF table[hash] = "pending" THEN [table EXCEPT ![hash] = how] ELSE table

\* ------------------------------------------------------- calls
NoCall == [op |-> "none", pc |-> "done", result |-> "", hash |-> <<>>,
           content |-> "", entries |-> <<>>, location |-> "", tmpFile |-> "",
           ino |-> <<>>, ready |-> FALSE, origin |-> <<>>]

\* Whether enterDirectory has returned `hash` to a caller of this instance.
Entered(hash) ==
  \E call \in DOMAIN calls :
    call.op = "enterDirectory" /\ call.result = "ok" /\ call.hash = hash

\* Whether every file entry of `entries`, at any depth, has a cache entry.
RECURSIVE FilesCached(_)
FilesCached(entries) ==
  \A i \in 1..Len(entries) :
    IF isDirectory(entries[i]) THEN FilesCached(entries[i].files)
    ELSE existsp(entries[i].hash)

\* No ingestion routine of this instance is in progress.
Idle == \A h \in DOMAIN ops : ops[h].pc = "done"

Calls == DOMAIN calls
RECURSIVE InProgress(_)
InProgress(S) ==
  IF S = {} THEN 0
  ELSE LET call == CHOOSE x \in S : TRUE
       IN (IF call.pc # "done" THEN calls[call] ELSE 0) + InProgress(S \ {call})
MayCall == issued < MaxCalls /\ InProgress(Calls) < MaxActive

\* enterFile(file: string), lines 110-113: hashOf, then enterHashedFile; the caller
\* then awaits the slot.
EnterFile(c) ==
  /\ MayCall
  /\ issued' = issued + 1
  /\ LET hash == Digest(c)
         st == enterHashedFile(Slots, hash)
     IN /\ entering' = st.entering
        /\ ops' = st.ops
        /\ started' = st.started
        /\ calls' = Bump(calls, [NoCall EXCEPT !.op = "enterFile", !.pc = "await",
                                                 !.hash = hash, !.content = c])
  /\ UNCHANGED <<inodes, cache, tmp, dest, writes, restarts>>

  /\ UNCHANGED <<hashing, hashed, located>>
\* A caller awaiting entering[hash] resumes once the promise has settled.
AwaitSlot(call) ==
  /\ call \in Calls
  /\ call.pc = "await"
  /\ call.op # "realizeVirtualDirectory"
  /\ entering[call.hash] # "pending"
  /\ calls' = Swap(calls, call,
                   [call EXCEPT !.pc = "done",
                                !.result = IF entering[call.hash] = "resolved"
                                           THEN "ok" ELSE "failed"])
  /\ UNCHANGED <<inodes, cache, tmp, dest, entering, ops, started, writes, issued,
                 restarts>>

  /\ UNCHANGED <<hashing, hashed, located>>
\* ----------------------------------------- enterHashedFileImpl
\* Lines 247-253 with copyFile, lines 46-65.  The cache path exists: nothing is
\* done.  Otherwise mkdirp of the shard directories, then createWriteStream
\* creates the cache file; a source that cannot be opened (the entry hashDir
\* gave the hash "missing") fails the reader while the writer has already
\* created an empty file.
FileSourceReadable(hash) == hash # Missing
\* The bytes of the source file that hashOf gave `hash`.
SourceContent(hash) == hash[2]

FileExists(hash) ==
  /\ hash \in DOMAIN ops
  /\ ops[hash].kind = "file" /\ ops[hash].pc = "exists"
  /\ IF existsp(hash)
     THEN /\ entering' = Settle(entering, hash, "resolved")
          /\ ops' = [ops EXCEPT ![hash].pc = "done"]
          /\ UNCHANGED <<inodes, cache, writes>>
     ELSE LET ino == <<"copy">> \o hash
          IN /\ cache' = Put(cache, hash, [kind |-> "file", ino |-> ino,
                                              links |-> <<>>])
             /\ writes' = Bump(writes, hash)
             /\ IF FileSourceReadable(hash)
                THEN /\ inodes' = Put(inodes, ino, [content |-> SourceContent(hash),
                                                      state |-> "writing"])
                     /\ ops' = [ops EXCEPT ![hash].pc = "copy"]
                     /\ UNCHANGED entering
                ELSE /\ inodes' = Put(inodes, ino, [content |-> "", state |-> "full"])
                     /\ ops' = [ops EXCEPT ![hash].pc = "done"]
                     /\ entering' = Settle(entering, hash, "rejected")
  /\ UNCHANGED <<tmp, dest, calls, started, issued, restarts>>

  /\ UNCHANGED <<hashing, hashed, located>>
\* copyStream resolves one setImmediate after the reader's 'end' (lines 49-53),
\* whether or not the writer has written every byte by then.
CopyReported(ino, written) ==
  [inodes EXCEPT ![ino].state = IF written THEN "full" ELSE "partial"]

FileCopyEnd(hash, written) ==
  /\ hash \in DOMAIN ops
  /\ ops[hash].kind = "file" /\ ops[hash].pc = "copy"
  /\ inodes' = CopyReported(cache[hash].ino, written)
  /\ entering' = Settle(entering, hash, "resolved")
  /\ ops' = [ops EXCEPT ![hash].pc = "done"]
  /\ UNCHANGED <<cache, tmp, dest, calls, started, writes, issued, restarts>>

  /\ UNCHANGED <<hashing, hashed, located>>
\* A write stream has written the last of its bytes: nothing in copyStream waits
\* for it.
WriterFinish(ino) ==
  /\ ino \in DOMAIN inodes
  /\ inodes[ino].state = "partial"
  /\ inodes' = [inodes EXCEPT ![ino].state = "full"]
  /\ UNCHANGED <<cache, tmp, dest, entering, ops, calls, started, writes, issued,
                 restarts>>

  /\ UNCHANGED <<hashing, hashed, located>>
\* ----------------------------------------------------- realize
\* realize(location, hash), lines 151-163: existsp, statp, then symlink for a
\* directory and link for a file.  Cache entries are never removed and never
\* change their kind, so the three awaits are taken as one step, at the time of
\* the link.  `taken` says whether something is already at the location.
\* realize that replaces whatever is at the location.
RealizeResultOverwrite(hash, taken) ==
  IF ~existsp(hash) THEN "notfound" ELSE "ok"

\* realize without its existence test: statp fails instead, with ENOENT.
RealizeResultStatError(hash, taken) ==
  IF ~existsp(hash) THEN "failed"
  ELSE IF taken THEN "exists"
  ELSE "ok"

RealizeResult(hash, taken) ==
  IF ~existsp(hash) THEN "notfound"
  ELSE IF taken THEN "exists"
  ELSE "ok"

EmptyDirectory == [kind |-> "dir", ino |-> <<>>, links |-> <<>>]

\* The link of the earlier realize (lines 366-373): a hard link whatever the entry.
RealizeLinkHard(hash) == [type |-> "hard", to |-> cache[hash].ino]

RealizeLink(hash) ==
  IF cache[hash].kind = "dir" THEN [type |-> "sym", to |-> hash]
  ELSE [type |-> "hard", to |-> cache[hash].ino]

Realize(location, hash) ==
  /\ MayCall
  /\ issued' = issued + 1
  /\ LET result == RealizeResult(hash, location \in DOMAIN dest)
     IN /\ dest' = IF result = "ok" THEN Put(dest, location, RealizeLink(hash))
                   ELSE dest
        /\ calls' = Bump(calls, [NoCall EXCEPT !.op = "realize", !.hash = hash,
                                               !.location = location,
                                               !.result = result,
                                               !.ready = Entered(hash)])
  /\ UNCHANGED <<inodes, cache, tmp, entering, ops, started, writes, restarts>>

  /\ UNCHANGED <<hashing, hashed, located>>
\* One child of a cache directory node has been dealt with: the node has the
\* links `links`; a failure rejects Promise.all at once, the other children go on.
ChildDone(hash, i, links, ok) ==
  LET todo == ops[hash].todo \ {i}
  IN /\ cache' = [cache EXCEPT ![hash].links = links]
     /\ ops' = [ops EXCEPT ![hash].todo = todo,
                           ![hash].pc = IF todo = {} THEN "done" ELSE @]
     /\ entering' = IF ~ok THEN Settle(entering, hash, "rejected")
                    ELSE IF todo = {} THEN Settle(entering, hash, "resolved")
                    ELSE entering

\* ------------------------------------ enterHashedDirectoryImpl
\* Lines 229-238.  The cache path exists: nothing is done.  Otherwise every
\* child is ensured in one turn.
DirExists(hash) ==
  /\ hash \in DOMAIN ops
  /\ ops[hash].kind = "dir" /\ ops[hash].pc = "exists"
  /\ IF existsp(hash)
     THEN /\ entering' = Settle(entering, hash, "resolved")
          /\ ops' = [ops EXCEPT ![hash].pc = "done"]
          /\ UNCHANGED started
     ELSE LET st == EnsureAll([Slots EXCEPT !.ops[hash].pc = "join"], ops[hash].entries)
          IN /\ entering' = st.entering
             /\ ops' = st.ops
             /\ started' = st.started
  /\ UNCHANGED <<inodes, cache, tmp, dest, calls, writes, issued, restarts>>

  /\ UNCHANGED <<hashing, hashed, located>>
ChildHashes(entries) == {entries[i].hash : i \in 1..Len(entries)}

\* A join that waits for nothing.
ChildrenNotAwaited(hash) == TRUE

\* await Promise.all(entries.map(ensureEntry)): resolved once every child's slot
\* is resolved.
ChildrenIngested(hash) ==
  \A h \in ChildHashes(ops[hash].entries) : entering[h] = "resolved"

\* Promise.all rejects as soon as one child's slot is rejected.
DirChildFailed(hash) ==
  /\ hash \in DOMAIN ops
  /\ ops[hash].kind = "dir" /\ ops[hash].pc = "join"
  /\ \E h \in ChildHashes(ops[hash].entries) : entering[h] = "rejected"
  /\ entering' = Settle(entering, hash, "rejected")
  /\ ops' = [ops EXCEPT ![hash].pc = "done"]
  /\ UNCHANGED <<inodes, cache, tmp, dest, calls, started, writes, issued,
                 restarts>>

  /\ UNCHANGED <<hashing, hashed, located>>
\* mkdirp of the directory's own cache path, after the join.
DirMkdir(hash) ==
  /\ hash \in DOMAIN ops
  /\ ops[hash].kind = "dir" /\ ops[hash].pc = "join"
  /\ ChildrenIngested(hash)
  /\ LET todo == 1..Len(ops[hash].entries)
     IN /\ cache' = IF existsp(hash) THEN cache ELSE Put(cache, hash, EmptyDirectory)
        /\ writes' = IF existsp(hash) THEN writes ELSE Bump(writes, hash)
        /\ ops' = [ops EXCEPT ![hash].todo = todo, ![hash].made = TRUE,
                              ![hash].pc = IF todo = {} THEN "done" ELSE "realize"]
        /\ entering' = IF todo = {} THEN Settle(entering, hash, "resolved")
                       ELSE entering
  /\ UNCHANGED <<inodes, tmp, dest, calls, started, issued, restarts>>

  /\ UNCHANGED <<hashing, hashed, located>>
\* this.realize(path.join(fullDirectoryName, entry.name), entry.hash)
DirRealize(hash, i) ==
  /\ hash \in DOMAIN ops
  /\ ops[hash].kind = "dir" /\ ops[hash].pc = "realize"
  /\ i \in ops[hash].todo
  /\ LET entry == ops[hash].entries[i]
         links == cache[hash].links
         result == RealizeResult(entry.hash, entry.name \in DOMAIN links)
     IN ChildDone(hash, i,
                  IF result = "ok" THEN Put(links, entry.name, RealizeLink(entry.hash))
                  ELSE links,
                  result = "ok")
  /\ UNCHANGED <<inodes, tmp, dest, calls, started, writes, issued, restarts>>

  /\ UNCHANGED <<hashing, hashed, located>>
\* ------------------------------- enterHashVirtualDirectoryImpl
\* Lines 187-199.  The cache path exists: nothing is done.  Otherwise mkdirp of
\* the node first, then entries.map: a directory entry enters its own virtual
\* directory in the same turn.
VirtualExists(hash) ==
  /\ hash \in DOMAIN ops
  /\ ops[hash].kind = "vdir" /\ ops[hash].pc = "exists"
  /\ IF existsp(hash)
     THEN /\ entering' = Settle(entering, hash, "resolved")
          /\ ops' = [ops EXCEPT ![hash].pc = "done"]
          /\ UNCHANGED <<cache, started, writes>>
     ELSE LET todo == 1..Len(ops[hash].entries)
              mine == [Slots EXCEPT !.ops[hash].todo = todo, !.ops[hash].made = TRUE,
                                    !.ops[hash].pc = IF todo = {} THEN "done"
                                                     ELSE "realize"]
              st == EnterVirtualChildren(mine, ops[hash].entries)
          IN /\ cache' = Put(cache, hash, EmptyDirectory)
             /\ writes' = Bump(writes, hash)
             /\ entering' = IF todo = {} THEN Settle(st.entering, hash, "resolved")
                            ELSE st.entering
             /\ ops' = st.ops
             /\ started' = st.started
  /\ UNCHANGED <<inodes, tmp, dest, calls, issued, restarts>>

  /\ UNCHANGED <<hashing, hashed, located>>
\* A file entry: this.realize(path.join(fullHashName, entry.name), entry.hash).
VirtualRealizeFile(hash, i) ==
  /\ hash \in DOMAIN ops
  /\ ops[hash].kind = "vdir" /\ ops[hash].pc = "realize"
  /\ i \in ops[hash].todo
  /\ ~isDirectory(ops[hash].entries[i])
  /\ LET entry == ops[hash].entries[i]
         links == cache[hash].links
         result == RealizeResult(entry.hash, entry.name \in DOMAIN links)
     IN ChildDone(hash, i,
                  IF result = "ok" THEN Put(links, entry.name, RealizeLink(entry.hash))
                  ELSE links,
                  result = "ok")
  /\ UNCHANGED <<inodes, tmp, dest, calls, started, writes, issued, restarts>>

  /\ UNCHANGED <<hashing, hashed, located>>
\* A directory entry: realizeHashedVirtualDirectory, lines 201-206, awaits the
\* child's slot and then symlinks the child's cache path, whatever is there.
VirtualRealizeDirectory(hash, i) ==
  /\ hash \in DOMAIN ops
  /\ ops[hash].kind = "vdir" /\ ops[hash].pc = "realize"
  /\ i \in ops[hash].todo
  /\ isDirectory(ops[hash].entries[i])
  /\ LET entry == ops[hash].entries[i]
         links == cache[hash].links
         ok == entering[entry.hash] = "resolved" /\ entry.name \notin DOMAIN links
     IN /\ entering[entry.hash] # "pending"
        /\ ChildDone(hash, i,
                     IF ok
                     THEN Put(links, entry.name, [type |-> "sym", to |-> entry.hash])
                     ELSE links,
                     ok)
  /\ UNCHANGED <<inodes, tmp, dest, calls, started, writes, issued, restarts>>

  /\ UNCHANGED <<hashing, hashed, located>>
\* ------------------------------------------------- enterStream
\* Lines 255-258 with tmpFileName, lines 74-81: a candidate name that does not
\* exist when it is tested.  The file is created later, by createWriteStream.
EnterStream(c, candidateName) ==
  /\ MayCall
  /\ issued' = issued + 1
  /\ candidateName \notin DOMAIN tmp
  /\ calls' = Bump(calls, [NoCall EXCEPT !.op = "enterStream", !.pc = "open",
                                           !.content = c, !.tmpFile = candidateName])
  /\ UNCHANGED <<inodes, cache, tmp, dest, entering, ops, started, writes, restarts>>

  /\ UNCHANGED <<hashing, hashed, located>>
\* fs.createWriteStream(tmpFile) opens with flag 'w': a new file, or the file
\* another call has created under the same name since the test, truncated.
StreamOpen(call) ==
  /\ call \in Calls
  /\ call.pc = "open"
  /\ LET name == call.tmpFile
         fresh == <<"tmp", ToString(Cardinality(DOMAIN inodes))>>
         ino == IF name \in DOMAIN tmp THEN tmp[name] ELSE fresh
     IN /\ tmp' = Put(tmp, name, ino)
        /\ inodes' = Put(inodes, ino,
                         IF ino \in DOMAIN inodes /\ inodes[ino].state # "full"
                         THEN [content |-> "mixed", state |-> "writing"]
                         ELSE [content |-> call.content, state |-> "writing"])
        /\ calls' = Swap(calls, call, [call EXCEPT !.pc = "copy", !.ino = ino])
  /\ UNCHANGED <<cache, dest, entering, ops, started, writes, issued, restarts>>

  /\ UNCHANGED <<hashing, hashed, located>>
\* What copyStream resolves with, lines 46-58: hasher.hash, read one setImmediate
\* after the reader's 'end'; it is null until _flush has run.
CopyStreamHashes(c) == {Digest(c), NullHash}

\* Lines 259-265: the hash is known; attach to the slot or store
\* enterHashedStream's promise.  cacheNameOfHash(null) throws in the first turn
\* of enterHashedStream, so the promise stored for a null hash is rejected.
StreamCopyEnd(call, hash, written) ==
  /\ call \in Calls
  /\ call.pc = "copy"
  /\ hash \in CopyStreamHashes(call.content)
  /\ inodes' = CopyReported(call.ino, written)
  /\ LET st == IF HasSlot(entering, hash) THEN Slots
               ELSE StartImpl(Slots, hash, "stream", <<>>, call.tmpFile)
         thrown == ~HasSlot(entering, hash) /\ hash = NullHash
     IN /\ entering' = IF thrown THEN Settle(st.entering, hash, "rejected")
                       ELSE st.entering
        /\ ops' = IF thrown THEN [st.ops EXCEPT ![hash].pc = "done"] ELSE st.ops
        /\ started' = st.started
  /\ calls' = Swap(calls, call, [call EXCEPT !.pc = "await", !.hash = hash])
  /\ UNCHANGED <<cache, tmp, dest, writes, issued, restarts>>

  /\ UNCHANGED <<hashing, hashed, located>>
\* enterHashedStream, lines 269-274: link the temporary file to the cache path
\* unless the cache path exists.
StreamExists(hash) ==
  /\ hash \in DOMAIN ops
  /\ ops[hash].kind = "stream" /\ ops[hash].pc = "exists"
  /\ LET tmpFile == ops[hash].tmpFile
     IN IF existsp(hash)
        THEN /\ ops' = [ops EXCEPT ![hash].pc = "unlink", ![hash].found = TRUE]
             /\ UNCHANGED <<cache, writes, entering>>
        ELSE IF tmpFile \in DOMAIN tmp
        THEN /\ cache' = Put(cache, hash, [kind |-> "file", ino |-> tmp[tmpFile],
                                           links |-> <<>>])
             /\ writes' = Bump(writes, hash)
             /\ ops' = [ops EXCEPT ![hash].pc = "unlink"]
             /\ UNCHANGED entering
        ELSE /\ entering' = Settle(entering, hash, "rejected")
             /\ ops' = [ops EXCEPT ![hash].pc = "done"]
             /\ UNCHANGED <<cache, writes>>
  /\ UNCHANGED <<inodes, tmp, dest, calls, started, issued, restarts>>

  /\ UNCHANGED <<hashing, hashed, located>>
\* enterHashedStream, line 275: unlink(tmpFile).
StreamUnlink(hash) ==
  /\ hash \in DOMAIN ops
  /\ ops[hash].kind = "stream" /\ ops[hash].pc = "unlink"
  /\ LET tmpFile == ops[hash].tmpFile
     IN /\ tmp' = Drop(tmp, tmpFile)
        /\ entering' = Settle(entering, hash,
                              IF tmpFile \in DOMAIN tmp THEN "resolved" ELSE "rejected")
  /\ ops' = [ops EXCEPT ![hash].pc = "done"]
  /\ UNCHANGED <<inodes, cache, dest, calls, started, writes, issued, restarts>>

  /\ UNCHANGED <<hashing, hashed, located>>
\* ------------------------------------------------- directories
\* enterDirectory, lines 126-131.
EnterDirectory(directory) ==
  /\ MayCall
  /\ issued' = issued + 1
  /\ LET results == hashDir(directory)
         hash == hashEntries(results)
         st == enterHashedDirectory(Slots, results, hash)
     IN /\ entering' = st.entering
        /\ ops' = st.ops
        /\ started' = st.started
        /\ calls' = Bump(calls, [NoCall EXCEPT !.op = "enterDirectory", !.pc = "await",
                                                 !.hash = hash, !.entries = results])
  /\ UNCHANGED <<inodes, cache, tmp, dest, writes, restarts>>

  /\ UNCHANGED <<hashing, hashed, located>>
\* enterVirtualDirectory, lines 139-143, on the entries of the tree `directory`
\* without the files named `drop`.
EnterVirtualDirectory(directory, drop) ==
  /\ MayCall
  /\ issued' = issued + 1
  /\ LET entries == filter(hashDir(directory), drop)
         hash == hashEntries(entries)
         st == enterHashedVirtualDirectory(Slots, hash, entries)
     IN /\ entering' = st.entering
        /\ ops' = st.ops
        /\ started' = st.started
        /\ calls' = Bump(calls, [NoCall EXCEPT !.op = "enterVirtualDirectory",
                                               !.pc = "await", !.hash = hash,
                                               !.entries = entries,
                                               !.ready = FilesCached(entries)
                                                         /\ Idle])
  /\ UNCHANGED <<inodes, cache, tmp, dest, writes, restarts>>

  /\ UNCHANGED <<hashing, hashed, located>>
\* realizeVirtualDirectory, lines 175-178, up to the await of line 203.  The
\* entries are those of the tree `directory` without the files named `drop`.
RealizeVirtualDirectory(location, directory, drop) ==
  /\ MayCall
  /\ issued' = issued + 1
  /\ LET origin == hashEntries(hashDir(directory))
         entries == filter(hashDir(directory), drop)
         hash == hashEntries(entries)
         st == enterHashedVirtualDirectory(Slots, hash, entries)
     IN /\ entering' = st.entering
        /\ ops' = st.ops
        /\ started' = st.started
        /\ calls' = Bump(calls, [NoCall EXCEPT !.op = "realizeVirtualDirectory",
                                               !.pc = "await", !.hash = hash,
                                               !.entries = entries,
                                               !.location = location,
                                               !.origin = origin,
                                               !.ready = Entered(origin)])
  /\ UNCHANGED <<inodes, cache, tmp, dest, writes, restarts>>

  /\ UNCHANGED <<hashing, hashed, located>>
\* realizeHashedVirtualDirectory, lines 203-205, for the public call: the slot has
\* settled; symlink the cache path to the location.
RealizeVirtualLink(call) ==
  /\ call \in Calls
  /\ call.pc = "await"
  /\ call.op = "realizeVirtualDirectory"
  /\ entering[call.hash] # "pending"
  /\ LET location == call.location
         result == IF entering[call.hash] = "rejected" THEN "failed"
                   ELSE IF location \in DOMAIN dest THEN "exists"
                   ELSE "ok"
     IN /\ dest' = IF result = "ok"
                   THEN Put(dest, location, [type |-> "sym", to |-> call.hash])
                   ELSE dest
        /\ calls' = Swap(calls, call, [call EXCEPT !.pc = "done", !.result = result])
  /\ UNCHANGED <<inodes, cache, tmp, entering, ops, started, writes, issued,
                 restarts>>

  /\ UNCHANGED <<hashing, hashed, located>>
\* ---------------------------------------------------------------- a later instance
\* Nothing of the instance is in progress.
AllWritten == \A ino \in DOMAIN inodes : inodes[ino].state = "full"

Quiescent ==
  /\ \A call \in Calls : call.pc = "done"
  /\ Idle
  /\ AllWritten

\* constructor, lines 93-99, on the same location: a new, empty in-flight table
\* over the files the earlier instance left.
NewStore ==
  /\ Quiescent
  /\ restarts < MaxRestarts
  /\ restarts' = restarts + 1
  /\ entering' = <<>>
  /\ ops' = <<>>
  /\ calls' = <<>>
  /\ started' = <<>>
  /\ UNCHANGED <<inodes, cache, tmp, dest, writes, issued>>

  /\ UNCHANGED <<hashing, hashed, located>>
StreamHashes == {Digest(c) : c \in StreamInputs} \cup {NullHash}

Next ==
  \/ \E c \in FileInputs : EnterFile(c)
  \/ \E c \in StreamInputs, n \in TmpNames : EnterStream(c, n)
  \/ \E d \in Trees : EnterDirectory(d)
  \/ \E v \in Virtuals : EnterVirtualDirectory(v.directory, v.drop)
  \/ \E l \in Dests, h \in RealizeHashes : Realize(l, h)
  \/ \E l \in Dests, v \in Virtuals : RealizeVirtualDirectory(l, v.directory, v.drop)
  \/ \E call \in Calls : AwaitSlot(call)
  \/ \E call \in Calls : RealizeVirtualLink(call)
  \/ \E call \in Calls : StreamOpen(call)
  \/ \E call \in Calls, h \in StreamHashes, w \in BOOLEAN : StreamCopyEnd(call, h, w)
  \/ \E h \in DOMAIN ops : FileExists(h)
  \/ \E h \in DOMAIN ops, w \in BOOLEAN : FileCopyEnd(h, w)
  \/ \E h \in DOMAIN ops : StreamExists(h)
  \/ \E h \in DOMAIN ops : StreamUnlink(h)
  \/ \E h \in DOMAIN ops : DirExists(h)
  \/ \E h \in DOMAIN ops : DirChildFailed(h)
  \/ \E h \in DOMAIN ops : DirMkdir(h)
  \/ \E h \in DOMAIN ops : \E i \in ops[h].todo : DirRealize(h, i)
  \/ \E h \in DOMAIN ops : VirtualExists(h)
  \/ \E h \in DOMAIN ops : \E i \in ops[h].todo : VirtualRealizeFile(h, i)
  \/ \E h \in DOMAIN ops : \E i \in ops[h].todo : VirtualRealizeDirectory(h, i)
  \/ \E ino \in DOMAIN inodes : WriterFinish(ino)
  \/ NewStore

Spec == Init /\ [][Next]_vars

\* ------------------------------------------------------ reading
\* hashOf of a regular file, by its inode: the digest of the bytes written so far.
hashOfInode(ino) ==
  IF inodes[ino].state = "full" THEN Digest(inodes[ino].content)
  ELSE Digest("partial")

\* hashDir of the directory at the cache path of `hash`, as a reader gets it through
\* a symbolic link at a destination: statp follows links, a link to nothing is ENOENT.
RECURSIVE hashDirAt(_)
hashDirAt(hash) ==
  LET links == cache[hash].links
      files == SortNames(DOMAIN links)
  IN [i \in 1..Len(files) |->
        LET file == files[i]
            link == links[file]
        IN IF link.type = "hard" THEN FileEntry(file, hashOfInode(link.to))
           ELSE IF ~existsp(link.to) THEN FileEntry(file, Missing)
           ELSE IF cache[link.to].kind = "file"
           THEN FileEntry(file, hashOfInode(cache[link.to].ino))
           ELSE LET result == hashDirAt(link.to)
                IN DirectoryEntry(file, hashEntries(result), result)]

\* The cache node of `hash` is a directory with exactly one link per entry, at the
\* entry's name, to the entry's own cache entry, and so on below.
RECURSIVE Populated(_, _)
Populated(hash, entries) ==
  /\ existsp(hash)
  /\ cache[hash].kind = "dir"
  /\ DOMAIN cache[hash].links = {entries[i].name : i \in 1..Len(entries)}
  /\ \A i \in 1..Len(entries) :
       LET entry == entries[i]
           link == cache[hash].links[entry.name]
       IN /\ existsp(entry.hash)
          /\ IF isDirectory(entry)
             THEN /\ cache[entry.hash].kind = "dir"
                  /\ link = [type |-> "sym", to |-> entry.hash]
                  /\ Populated(entry.hash, entry.files)
             ELSE /\ cache[entry.hash].kind = "file"
                  /\ link = [type |-> "hard", to |-> cache[entry.hash].ino]

\* The calls of one public operation, and those that have returned a value.
CallsOf(op) == {call \in Calls : call.op = op}
Returned(op) == {call \in CallsOf(op) : call.pc = "done" /\ call.result = "ok"}

\* The realize call this step makes, if it makes one.
RealizeStep(r) == r.op = "realize" /\ Count(calls', r) > Count(calls, r)

\* ------------------------------------------------------ claims
\* C1: single-flight.  Within one store instance at most one ingestion routine
\* is ever started for a hash: a hash has an in-flight slot exactly when one
\* routine was started for it, and every caller waiting for a hash waits on
\* that slot, whatever the interleaving of enterFile (path or stream),
\* enterDirectory and enterVirtualDirectory, duplicate siblings included.
C1_SingleFlight ==
  /\ DOMAIN started = DOMAIN entering
  /\ \A h \in DOMAIN started : started[h] = 1
  /\ \A call \in Calls : call.pc = "await" => HasSlot(entering, call.hash)

\* A file call, a stream call of the same bytes and a directory call whose tree
\* has that content in two identical sub-directories have all returned, on one
\* routine per hash.
C1_Attached ==
  \E f \in Returned("enterFile"), s \in Returned("enterStream"),
     d \in Returned("enterDirectory") :
    /\ s.hash = f.hash
    /\ \E i, j \in 1..Len(d.entries) :
         /\ i # j
         /\ d.entries[i].hash = d.entries[j].hash
         /\ isDirectory(d.entries[i])
         /\ started[d.entries[i].hash] = 1
    /\ started[f.hash] = 1

\* C2: idempotence of ingestion.  Bytes are written or linked into the cache
\* path of a hash, and a directory is made there, at most once, over every
\* sequence and interleaving of calls; every enterFile call that returns, by
\* path or by stream, returns the digest of its content, every enterDirectory
\* call that returns returns the hash of its tree, and the one write into that
\* hash's cache path has then happened.
C2_Idempotent ==
  /\ \A h \in DOMAIN writes : writes[h] = 1
  /\ \A call \in Returned("enterFile") \cup Returned("enterStream") :
       call.hash = Digest(call.content) /\ Count(writes, call.hash) = 1
  /\ \A call \in Returned("enterDirectory") :
       call.hash = hashEntries(call.entries) /\ Count(writes, call.hash) = 1

\* The same bytes entered as a file and as a stream by a later instance of a
\* store that holds them: one write.
C2_EnteredTwice ==
  /\ restarts = 1
  /\ \E f \in Returned("enterFile"), s \in Returned("enterStream") :
       s.hash = f.hash /\ writes[f.hash] = 1

\* C3: once an enterFile(stream) call has returned, the temporary file it wrote
\* in the cache root no longer exists.
C3_TmpRemoved ==
  \A call \in Returned("enterStream") : \A name \in DOMAIN tmp : tmp[name] # call.ino

\* C4: a failed ingestion does not poison its slot.  An enterVirtualDirectory
\* call made while every file its entries name is in the cache, and no
\* ingestion is in progress, does not fail.
C4_NotPoisoned ==
  \A call \in CallsOf("enterVirtualDirectory") :
    call.ready /\ call.pc = "done" => call.result = "ok"

\* C5: the join point of enterDirectory.  Whenever the routine of a directory
\* has made the directory's cache node, the ingestion of every child has
\* completed: its slot is resolved and its cache entry exists.
C5_JoinPoint ==
  \A h \in DOMAIN ops :
    ops[h].kind = "dir" /\ ops[h].made =>
      \A c \in ChildHashes(ops[h].entries) : entering[c] = "resolved" /\ existsp(c)

\* A directory routine has made the node of a tree with sub-directories while
\* it still has links to make.
C5_NodeMade ==
  \E h \in DOMAIN ops :
    /\ ops[h].kind = "dir" /\ ops[h].made /\ ops[h].pc = "realize"
    /\ \E i \in 1..Len(ops[h].entries) : isDirectory(ops[h].entries[i])

\* C6: when enterDirectory has returned, the cache node of the returned hash
\* and of every directory below it holds exactly one link per child, at the
\* child's name, to the child's cache entry.
C6_Populated ==
  \A call \in Returned("enterDirectory") : Populated(call.hash, call.entries)

\* C7: round trip.  After enterDirectory has returned h, a realize of h at a
\* free destination gives a directory whose hashDir is the hashDir of the
\* tree, once every writer has finished.
C7_RoundTrip ==
  \A r \in Returned("realize"), d \in Returned("enterDirectory") :
    r.ready /\ d.hash = r.hash /\ AllWritten =>
      hashDirAt(dest[r.location].to) = d.entries

\* C8: virtual-directory equivalence.  After the tree has been entered, a
\* realizeVirtualDirectory of its filtered entries gives a directory whose
\* hashEntries(hashDir) is the hash of the filtered entries, which is the hash
\* returned and differs from the tree's hash, once every writer has finished.
C8_VirtualEquivalence ==
  \A v \in Returned("realizeVirtualDirectory") :
    v.ready /\ AllWritten =>
      /\ hashEntries(hashDirAt(dest[v.location].to)) = hashEntries(v.entries)
      /\ v.hash = hashEntries(v.entries)
      /\ v.hash # v.origin

\* C9: realize of a hash that has no cache entry fails with NotFound and
\* changes nothing: no destination appears, and nothing in the store.
C9_RealizeUnknown ==
  [][\A r \in DOMAIN calls' :
       RealizeStep(r) /\ ~existsp(r.hash) =>
         /\ r.result = "notfound"
         /\ dest' = dest
         /\ cache' = cache /\ tmp' = tmp /\ inodes' = inodes]_vars

\* A realize has failed with NotFound.
C9_NotFound == \E r \in CallsOf("realize") : r.result = "notfound"

VirtualLinkStep(v) ==
  /\ v.op = "realizeVirtualDirectory" /\ v.pc = "done"
  /\ Count(calls', v) > Count(calls, v)

\* C11: realize and realizeVirtualDirectory fail when the destination exists and
\* leave it as it is.  No step replaces or removes a destination; a call whose
\* location is taken does not return, and once its cache entry is there (for
\* realizeVirtualDirectory: once the ingestion has succeeded) it fails with the
\* already-exists error of the link.
C11_DestinationExists ==
  [][/\ \A l \in DOMAIN dest : l \in DOMAIN dest' /\ dest'[l] = dest[l]
     /\ \A r \in DOMAIN calls' :
          RealizeStep(r) /\ r.location \in DOMAIN dest =>
            /\ r.result # "ok"
            /\ existsp(r.hash) => r.result = "exists"
     /\ \A v \in DOMAIN calls' :
          VirtualLinkStep(v) /\ v.location \in DOMAIN dest =>
            /\ v.result # "ok"
            /\ entering[v.hash] = "resolved" => v.result = "exists"]_vars

\* A realizeVirtualDirectory has failed on a destination that a realize had
\* made a hard link.
C11_Taken ==
  \E v \in CallsOf("realizeVirtualDirectory") :
    /\ v.result = "exists"
    /\ dest[v.location].type = "hard"

\* C12: enterVirtualDirectory and realizeVirtualDirectory fail when a file entry
\* of the entries, at any depth, names a hash that has no cache entry: a call
\* that has returned has every such hash in the cache.
C12_MissingFileFails ==
  \A call \in Returned("enterVirtualDirectory") \cup Returned("realizeVirtualDirectory") :
    FilesCached(call.entries)

\* C13: an enterFile call, by path or by stream, returns h only after the one
\* ingestion of h has completed, whether it started it or attached to it: when
\* a call has returned h the slot of h is resolved, its routine has ended and
\* the cache entry of h is a file on disk.
C13_ReturnsAfterIngestion ==
  \A call \in Returned("enterFile") \cup Returned("enterStream") :
    /\ HasSlot(entering, call.hash) /\ entering[call.hash] = "resolved"
    /\ ops[call.hash].pc = "done"
    /\ existsp(call.hash) /\ cache[call.hash].kind = "file"

\* A stream call has returned on the ingestion a file call started, while the
\* file call is still waiting to resume.
C13_AttachedReturned ==
  \E s \in Returned("enterStream"), f \in CallsOf("enterFile") :
    /\ f.hash = s.hash /\ f.pc = "await"
    /\ ops[s.hash].kind = "file"

\* C14: the in-flight table is never evicted.  In every step of one store
\* instance each key of the table stays a key, the routine stored for it is not
\* replaced by another, and a settled slot keeps its outcome, after successes
\* and after failures.
C14_NeverEvicted ==
  [][restarts' = restarts =>
       \A h \in DOMAIN entering :
         /\ h \in DOMAIN entering'
         /\ started'[h] = started[h]
         /\ ops'[h].kind = ops[h].kind
         /\ entering[h] # "pending" => entering'[h] = entering[h]]_vars

\* Two equal calls have failed on one rejected slot while another slot is
\* resolved.
C14_KeptAfterFailure ==
  \E call \in Calls :
    /\ calls[call] = 2 /\ call.result = "failed"
    /\ entering[call.hash] = "rejected"
    /\ \E h \in DOMAIN entering : entering[h] = "resolved"

\* ------------------------------------------------------ hashDir, callback by callback
\* FileHasher.hashDir, lines 518-569.  hashing.root is the directory hashed,
\* hashing.calls maps the path of a directory below it to the hashDir call made
\* for it, hashing.caller is the enterDirectory call that awaits the top call
\* (lines 126-131).
HashInputs ==
  { SrcDir(TreeA),
    SrcDir(("z" :> SrcDangling) @@ ("y" :> SrcFile("a"))
             @@ ("s" :> SrcDir("x" :> SrcFile("a")))),
    SrcDir(("s" :> SrcDir(("x" :> SrcDenied) @@ ("y" :> SrcFile("a"))))
             @@ ("y" :> SrcFile("a"))),
    SrcDir(("x" :> SrcUnreadable) @@ ("y" :> SrcFile("a"))),
    SrcDir(("x" :> SrcDenied) @@ ("y" :> SrcFile("a"))
             @@ ("s" :> SrcDir(("x" :> SrcFile("a")) @@ ("z" :> SrcDangling)))),
    SrcDir(<<>>),
    SrcLocked }

RECURSIVE NodeAt(_, _)
NodeAt(node, path) ==
  IF path = <<>> THEN node ELSE NodeAt(node.children[Head(path)], Tail(path))

\* A hashDir call before its readdir callback: `failed`, the promise, and after
\* readdir `expected`, the sorted `files`, the sparse `result` and where each
\* child's callbacks are; `order` lists the children in the order they reported.
NewHashDir == [settled |-> "pending", failed |-> FALSE, listed |-> FALSE,
               expected |-> 0, files |-> <<>>, result |-> <<>>, stage |-> <<>>,
               order |-> <<>>]

\* resolve and reject of a promise: the first one wins.
Resolve(settled) == IF settled = "pending" THEN "resolved" ELSE settled
Reject(settled) == IF settled = "pending" THEN "rejected" ELSE settled

\* result.push(info): the results in the order the children complete.
PushResult(result, i, info) == Put(result, Cardinality(DOMAIN result) + 1, info)

\* result[i] = info, line 539.
SetResult(result, i, info) == Put(result, i, info)

\* report(info), lines 538-543.
report(call, i, info) ==
  [call EXCEPT !.result = SetResult(call.result, i, info),
               !.expected = call.expected - 1,
               !.settled = IF call.expected - 1 = 0 THEN Resolve(@) ELSE @,
               !.stage[i] = "done",
               !.order = Append(@, i)]

\* reportError that rejects and does not set `failed`.
reportErrorUnflagged(call, i) ==
  [call EXCEPT !.settled = Reject(@), !.stage[i] = "done"]

\* reportError(err), lines 521-524.
reportError(call, i) ==
  [call EXCEPT !.settled = Reject(@), !.failed = TRUE, !.stage[i] = "done"]

\* A stat callback that takes every error for ENOENT.
statErrorUntested(child) ==
  IF child.kind \in {"dangling", "denied"} THEN "ENOENT" ELSE "none"

\* err and err.code of the stat callback, lines 546-552.
statError(child) ==
  IF child.kind = "dangling" THEN "ENOENT"
  ELSE IF child.kind = "denied" THEN "other"
  ELSE "none"

HashInit ==
  /\ Fresh
  /\ \E root \in HashInputs :
       hashing = [root |-> root, calls |-> (<<>> :> NewHashDir), caller |-> "hashDir"]
  /\ hashed = NoHashed
  /\ located = NoLocated

\* The readdir callback, lines 525-536.
HashReaddir(path) ==
  /\ path \in DOMAIN hashing.calls
  /\ ~hashing.calls[path].listed
  /\ LET call == hashing.calls[path]
         node == NodeAt(hashing.root, path)
         files == SortNames(DOMAIN node.children)
         next == IF node.kind = "locked"
                 THEN [call EXCEPT !.listed = TRUE, !.settled = Reject(@),
                                   !.failed = TRUE]
                 ELSE IF Len(files) = 0
                 THEN [call EXCEPT !.listed = TRUE, !.settled = Resolve(@)]
                 ELSE [call EXCEPT !.listed = TRUE, !.expected = Len(files),
                                   !.files = files,
                                   !.stage = [i \in 1..Len(files) |-> "stat"]]
     IN hashing' = [hashing EXCEPT !.calls[path] = next]
  /\ UNCHANGED <<inodes, cache, tmp, dest, entering, ops, calls, started, writes,
                 issued, restarts, hashed, located>>

\* The stat callback of one child, lines 544-565.
HashStat(path, i) ==
  /\ path \in DOMAIN hashing.calls
  /\ i \in DOMAIN hashing.calls[path].stage
  /\ hashing.calls[path].stage[i] = "stat"
  /\ LET call == hashing.calls[path]
         file == call.files[i]
         child == NodeAt(hashing.root, path \o <<file>>)
     IN IF call.failed
        THEN hashing' = [hashing EXCEPT !.calls[path].stage[i] = "done"]
        ELSE IF statError(child) = "ENOENT"
        THEN hashing' = [hashing EXCEPT
                           !.calls[path] = report(call, i, FileEntry(file, Missing))]
        ELSE IF statError(child) = "other"
        THEN hashing' = [hashing EXCEPT !.calls[path] = reportError(call, i)]
        ELSE IF child.kind \in {"file", "unreadable"}
        THEN hashing' = [hashing EXCEPT !.calls[path].stage[i] = "hashOf"]
        ELSE hashing' = [hashing EXCEPT
                           !.calls = Put([@ EXCEPT ![path].stage[i] = "hashDir"],
                                         path \o <<file>>, NewHashDir)]
  /\ UNCHANGED <<inodes, cache, tmp, dest, entering, ops, calls, started, writes,
                 issued, restarts, hashed, located>>

\* hashOf of a child has settled, lines 555-558: the continuation has no
\* handler for a rejection.
HashOfEnd(path, i) ==
  /\ path \in DOMAIN hashing.calls
  /\ i \in DOMAIN hashing.calls[path].stage
  /\ hashing.calls[path].stage[i] = "hashOf"
  /\ LET call == hashing.calls[path]
         file == call.files[i]
         child == NodeAt(hashing.root, path \o <<file>>)
     IN IF child.kind = "unreadable"
        THEN hashing' = [hashing EXCEPT !.calls[path].stage[i] = "lost"]
        ELSE IF call.failed
        THEN hashing' = [hashing EXCEPT !.calls[path].stage[i] = "done"]
        ELSE hashing' = [hashing EXCEPT !.calls[path] =
                           report(call, i, FileEntry(file, Digest(child.content)))]
  /\ UNCHANGED <<inodes, cache, tmp, dest, entering, ops, calls, started, writes,
                 issued, restarts, hashed, located>>

\* hashDir of a child directory has settled, lines 560-563: the continuation
\* has no handler for a rejection.
HashDirEnd(path, i) ==
  /\ path \in DOMAIN hashing.calls
  /\ i \in DOMAIN hashing.calls[path].stage
  /\ hashing.calls[path].stage[i] = "hashDir"
  /\ LET call == hashing.calls[path]
         file == call.files[i]
         sub == hashing.calls[path \o <<file>>]
     IN /\ sub.settled # "pending"
        /\ IF sub.settled = "rejected"
           THEN hashing' = [hashing EXCEPT !.calls[path].stage[i] = "lost"]
           ELSE IF call.failed
           THEN hashing' = [hashing EXCEPT !.calls[path].stage[i] = "done"]
           ELSE hashing' = [hashing EXCEPT !.calls[path] =
                              report(call, i,
                                     DirectoryEntry(file, hashEntries(sub.result),
                                                    sub.result))]
  /\ UNCHANGED <<inodes, cache, tmp, dest, entering, ops, calls, started, writes,
                 issued, restarts, hashed, located>>

\* enterDirectory, lines 127-130: resumes when the top hashDir call has settled.
HashCallerResume ==
  /\ hashing.caller = "hashDir"
  /\ hashing.calls[<<>>].settled # "pending"
  /\ hashing' = [hashing EXCEPT !.caller = IF hashing.calls[<<>>].settled = "resolved"
                                          THEN "enterHashedDirectory" ELSE "failed"]
  /\ UNCHANGED <<inodes, cache, tmp, dest, entering, ops, calls, started, writes,
                 issued, restarts, hashed, located>>

HashNext ==
  \/ \E path \in DOMAIN hashing.calls : HashReaddir(path)
  \/ \E path \in DOMAIN hashing.calls :
       \E i \in DOMAIN hashing.calls[path].stage : HashStat(path, i)
  \/ \E path \in DOMAIN hashing.calls :
       \E i \in DOMAIN hashing.calls[path].stage : HashOfEnd(path, i)
  \/ \E path \in DOMAIN hashing.calls :
       \E i \in DOMAIN hashing.calls[path].stage : HashDirEnd(path, i)
  \/ HashCallerResume

HashSpec == HashInit /\ [][HashNext]_vars /\ WF_vars(HashNext)

\* The place of a name in the order of files.sort().
Rank(name) == CHOOSE k \in 1..Len(NameOrder) : NameOrder[k] = name

\* No file below the directory fails to be read and no stat or readdir fails
\* with an error other than ENOENT.
RECURSIVE Readable(_)
Readable(node) ==
  /\ node.kind \notin {"unreadable", "denied", "locked"}
  /\ \A n \in DOMAIN node.children : Readable(node.children[n])

HashCalls == DOMAIN hashing.calls
ResolvedHashCalls == {p \in HashCalls : hashing.calls[p].settled = "resolved"}

\* C15: hashDir returns one entry per child, in ascending order of the names,
\* whatever the order in which the stat, hashOf and hashDir callbacks of the
\* children complete; for a readable directory the entries are those of hashDir
\* taken as a function.
C15_SortedEntries ==
  \A p \in ResolvedHashCalls :
    LET result == hashing.calls[p].result
        node == NodeAt(hashing.root, p)
        n == Cardinality(DOMAIN node.children)
    IN /\ DOMAIN result = 1..n
       /\ {result[i].name : i \in 1..n} = DOMAIN node.children
       /\ \A i, j \in 1..n : i < j => Rank(result[i].name) < Rank(result[j].name)
       /\ Readable(node) => result = hashDir(node.children)

\* A hashDir call of three children has resolved after its children reported
\* in another order than that of their names.
C15_OutOfOrder ==
  \E p \in ResolvedHashCalls :
    LET order == hashing.calls[p].order
    IN /\ Len(order) = 3
       /\ \E k \in 1..2 : order[k] > order[k + 1]

\* The children of the directory of a hashDir call, by index, once it is listed.
HashChild(p, i) == NodeAt(hashing.root, p \o <<hashing.calls[p].files[i]>>)

\* C16: in hashDir a child whose stat fails with ENOENT is recorded as a file
\* entry with the hash "missing" and does not keep the call from resolving
\* with an entry for every child; a child whose stat fails with another error
\* makes the call fail, and the call never resolves.
C16_StatErrors ==
  \A p \in HashCalls :
    LET call == hashing.calls[p]
        node == NodeAt(hashing.root, p)
        n == Len(call.files)
    IN /\ call.settled = "resolved" =>
            \A i \in 1..n :
              HashChild(p, i).kind = "dangling" =>
                call.result[i] = FileEntry(call.files[i], Missing)
       /\ Readable(node) /\ call.listed /\ (\A i \in 1..n : call.stage[i] = "done")
            => call.settled = "resolved" /\ DOMAIN call.result = 1..n
       /\ \A i \in 1..n :
            HashChild(p, i).kind = "denied" =>
              /\ call.settled # "resolved"
              /\ call.stage[i] = "done" => call.settled = "rejected"

\* One hashDir call has resolved with a "missing" entry and another has failed
\* on a stat error after all its callbacks.
C16_MissingAndFailed ==
  /\ \E p \in ResolvedHashCalls :
       \E i \in DOMAIN hashing.calls[p].result :
         hashing.calls[p].result[i].hash = Missing
  /\ \E p \in HashCalls :
       /\ hashing.calls[p].settled = "rejected"
       /\ \A i \in DOMAIN hashing.calls[p].stage : hashing.calls[p].stage[i] = "done"
       /\ \E i \in DOMAIN hashing.calls[p].stage : HashChild(p, i).kind = "denied"

\* C17: every failure inside directory hashing is surfaced.  When a file below
\* the directory cannot be read, or a stat or readdir below it fails with an
\* error other than ENOENT, the enterDirectory call does not go on with a result
\* and, once no callback is left to run, it has failed.
C17_FailureSurfaced ==
  ~Readable(hashing.root) =>
    /\ hashing.caller # "enterHashedDirectory"
    /\ ~ENABLED HashNext => hashing.caller = "failed"

\* C18: enterFile on a stream gets the hash hashOf gives a file of the same
\* bytes: the value copyStream hands to enterStream is the digest of all bytes
\* of the stream, never an unset one.
C18_StreamDigest ==
  \A call \in CallsOf("enterStream") :
    call.pc \in {"await", "done"} => call.hash = Digest(call.content)

\* ------------------------------------------------------ hashEntries on its own
\* The longest list of entries handed to hashEntries.
MaxEntries == 2

\* The entries the lists are made of: files x and y of two contents, and
\* directories that differ in name, in hash or in nothing but their files.
EntryInputs ==
  LET inner == <<FileEntry("x", Digest("a"))>>
  IN { FileEntry(n, Digest(c)) : n \in {"x", "y"}, c \in {"a", "b"} }
       \cup { DirectoryEntry("x", hashEntries(<<>>), <<>>),
              DirectoryEntry("x", hashEntries(<<>>), inner),
              DirectoryEntry("y", hashEntries(<<>>), <<>>),
              DirectoryEntry("x", hashEntries(inner), <<>>) }

EntriesInputs == UNION { [1..n -> EntryInputs] : n \in 0..MaxEntries }

EntriesInit ==
  /\ Fresh
  /\ hashing = NoHashing
  /\ \E left \in EntriesInputs, right \in EntriesInputs :
       hashed = [left |-> left, right |-> right, hashes |-> <<>>]
  /\ located = NoLocated

\* One call of hashEntries, on the left list and then on the right one.
HashEntriesCall ==
  /\ Len(hashed.hashes) < 2
  /\ LET entries == IF hashed.hashes = <<>> THEN hashed.left ELSE hashed.right
     IN hashed' = [hashed EXCEPT !.hashes = Append(@, hashEntries(entries))]
  /\ UNCHANGED <<inodes, cache, tmp, dest, entering, ops, calls, started, writes,
                 issued, restarts, hashing, located>>

EntriesNext == HashEntriesCall

EntriesSpec == EntriesInit /\ [][EntriesNext]_vars

BothHashed == Len(hashed.hashes) = 2

IsPermutation(a, b) ==
  /\ Len(a) = Len(b)
  /\ \E p \in [1..Len(a) -> 1..Len(a)] :
       /\ \A i, j \in 1..Len(a) : i # j => p[i] # p[j]
       /\ \A i \in 1..Len(a) : b[i] = a[p[i]]

DistinctNames(a) == \A i, j \in 1..Len(a) : i # j => a[i].name # a[j].name

\* C19: hashEntries is a function of the list in its order: equal lists have
\* equal hashes, and two different orders of the same entries, their names all
\* distinct, have different hashes.
C19_OrderedFunction ==
  BothHashed =>
    /\ hashed.left = hashed.right => hashed.hashes[1] = hashed.hashes[2]
    /\ ( /\ hashed.left # hashed.right
         /\ IsPermutation(hashed.left, hashed.right)
         /\ DistinctNames(hashed.left) )
         => hashed.hashes[1] # hashed.hashes[2]

\* Two orders of a file and a directory have been hashed.
C19_Permuted ==
  /\ BothHashed
  /\ hashed.left # hashed.right
  /\ IsPermutation(hashed.left, hashed.right)
  /\ DistinctNames(hashed.left)
  /\ \E i \in 1..Len(hashed.left) : isDirectory(hashed.left[i])

\* Entry for entry the two lists have the same kind, name and hash.
SameImmediate(a, b) ==
  /\ Len(a) = Len(b)
  /\ \A i \in 1..Len(a) :
       /\ isDirectory(a[i]) = isDirectory(b[i])
       /\ a[i].name = b[i].name
       /\ a[i].hash = b[i].hash

\* C20: the hash of a list is made of the name and the hash of each entry of
\* the list and of nothing below them: lists that differ only in the files of
\* their directory entries have one hash, and lists of one length that differ
\* in the name or the hash of an entry have different hashes.
C20_ImmediateOnly ==
  BothHashed =>
    /\ SameImmediate(hashed.left, hashed.right)
         => hashed.hashes[1] = hashed.hashes[2]
    /\ ( /\ Len(hashed.left) = Len(hashed.right)
         /\ \E i \in 1..Len(hashed.left) :
              \/ hashed.left[i].name # hashed.right[i].name
              \/ hashed.left[i].hash # hashed.right[i].hash )
         => hashed.hashes[1] # hashed.hashes[2]

\* Two lists that differ only in the files of a directory entry have been hashed.
C20_NestedDiffer ==
  /\ BothHashed
  /\ SameImmediate(hashed.left, hashed.right)
  /\ \E i \in 1..Len(hashed.left) :
       /\ isDirectory(hashed.left[i])
       /\ hashed.left[i].files # hashed.right[i].files

\* ------------------------------------------------------ the store, further claims
\* The hashes of the directory entries of `entries`.
DirectoryHashes(entries) ==
  {entries[i].hash : i \in {j \in 1..Len(entries) : isDirectory(entries[j])}}

\* C21: the join point of enterVirtualDirectory.  Whenever the routine of a
\* virtual directory has made the directory's cache node, the ingestion of every
\* directory entry of its entries has completed: its slot is resolved.
C21_VirtualJoinPoint ==
  \A h \in DOMAIN ops :
    ops[h].kind = "vdir" /\ ops[h].made =>
      \A c \in DirectoryHashes(ops[h].entries) :
        HasSlot(entering, c) /\ entering[c] = "resolved"

\* The routine of `h` tests its cache path in this step and finds it.
FoundStep(h) ==
  /\ h \in DOMAIN ops /\ h \in DOMAIN ops'
  /\ ops[h].pc = "exists" /\ ops'[h].pc # "exists"
  /\ existsp(h)

\* The routine of a stream that found its cache path ends in this step.
FoundStreamEnds(h) ==
  /\ h \in DOMAIN ops /\ h \in DOMAIN ops'
  /\ ops[h].found /\ ops[h].pc = "unlink" /\ ops'[h].pc = "done"

RECURSIVE EntriesWithin(_)
EntriesWithin(entries) ==
  UNION { {entries[i]} \cup (IF "files" \in DOMAIN entries[i]
                              THEN EntriesWithin(entries[i].files) ELSE {})
          : i \in 1..Len(entries) }

\* C23: every entry is a directory or a file and not both, and an entry whose
\* list of files is empty is a directory.
C23_OneVariant ==
  BothHashed =>
    \A entry \in EntriesWithin(hashed.left) \cup EntriesWithin(hashed.right) :
      /\ isDirectory(entry) # isFile(entry)
      /\ ("files" \in DOMAIN entry /\ entry.files = <<>>) =>
           isDirectory(entry) /\ ~isFile(entry)

\* A list with a file entry and a directory entry without files has been hashed.
C23_EmptyDirectory ==
  /\ BothHashed
  /\ \E i, j \in 1..Len(hashed.left) :
       /\ "files" \in DOMAIN hashed.left[i] /\ hashed.left[i].files = <<>>
       /\ ~("files" \in DOMAIN hashed.left[j])

\* ------------------------------------------------------ cacheNameOfHash on its own
\* Here a hash is the string itself, a sequence of characters, and a path is
\* the sequence of its segments below the location of the store.
\* The longest hash made of the characters a and b.
MaxKey == 5

\* String.substr(from, length), with `from` counted from 0.
substr(s, from, length) ==
  SubSeq(s, from + 1, IF from + length < Len(s) THEN from + length ELSE Len(s))

\* String.substring(2, 2) in place of substr(2, 2): the empty string.
cacheNameOfHashSubstring(hash) ==
  SelectSeq(<<substr(hash, 0, 2), <<>>, substr(hash, 4, Len(hash))>>,
            LAMBDA segment : segment # <<>>)

\* path.join(this.location, hash.substr(0, 2), hash.substr(2, 2), hash.substr(4)),
\* lines 278-280: path.join leaves out the empty segments.
cacheNameOfHash(hash) ==
  SelectSeq(<<substr(hash, 0, 2), substr(hash, 2, 2), substr(hash, 4, Len(hash))>>,
            LAMBDA segment : segment # <<>>)

\* The directories between the location and the path.
ShardDirectories(name) == {SubSeq(name, 1, n) : n \in 1..(Len(name) - 1)}

MissingKey == <<"m", "i", "s", "s", "i", "n", "g">>
KeyInputs == UNION { [1..n -> {"a", "b"}] : n \in 0..MaxKey } \cup {MissingKey}

LocateInit ==
  /\ Fresh
  /\ hashing = NoHashing
  /\ hashed = NoHashed
  /\ \E left \in KeyInputs, right \in KeyInputs :
       located = [left |-> left, right |-> right, names |-> <<>>]

\* One call of cacheNameOfHash, on the left hash and then on the right one.
CacheNameCall ==
  /\ Len(located.names) < 2
  /\ LET hash == IF located.names = <<>> THEN located.left ELSE located.right
     IN located' = [located EXCEPT !.names = Append(@, cacheNameOfHash(hash))]
  /\ UNCHANGED <<inodes, cache, tmp, dest, entering, ops, calls, started, writes,
                 issued, restarts, hashing, hashed>>

LocateNext == CacheNameCall

LocateSpec == LocateInit /\ [][LocateNext]_vars

BothLocated == Len(located.names) = 2

\* The two cache paths are different and neither is a directory on the way to
\* the other.
Apart ==
  /\ located.names[1] # located.names[2]
  /\ located.names[1] \notin ShardDirectories(located.names[2])
  /\ located.names[2] \notin ShardDirectories(located.names[1])

EntryNames(entries) == {entries[i].name : i \in 1..Len(entries)}

\* C25: a cache directory node is never seen half-built.  Whenever a directory
\* is at the cache path of a hash that a routine of this instance ingests as a
\* directory, it has a link for each of the entries, so that a realize of the
\* hash at that time links a populated node.
C25_NeverHalfBuilt ==
  \A h \in DOMAIN ops :
    ( /\ ops[h].kind \in {"dir", "vdir"}
      /\ existsp(h) /\ cache[h].kind = "dir" )
      => DOMAIN cache[h].links = EntryNames(ops[h].entries)

\* C26: a directory ingestion that has failed leaves no directory at the cache
\* path of its hash.
C26_NoNodeAfterFailure ==
  \A h \in DOMAIN ops :
    ( /\ ops[h].kind \in {"dir", "vdir"}
      /\ ops[h].pc = "done" /\ entering[h] = "rejected" )
      => ~existsp(h)

\* C27: a file ingestion that has failed leaves no file at the cache path of
\* its hash.
C27_NoFileAfterFailure ==
  \A h \in DOMAIN ops :
    ( /\ ops[h].kind = "file"
      /\ ops[h].pc = "done" /\ entering[h] = "rejected" )
      => ~existsp(h)

\* C28: the slot of a file hash resolves only when every byte is in the cache
\* file: once an enterFile call, by path or by stream, has returned, the writer
\* of the cache file of its hash has finished.
C28_CopyComplete ==
  \A call \in Returned("enterFile") \cup Returned("enterStream") :
    existsp(call.hash) => inodes[cache[call.hash].ino].state = "full"

\* C29: two enterFile(stream) calls of one store never write the same
\* temporary file.
C29_OwnTmpFile ==
  \A c1, c2 \in CallsOf("enterStream") :
    ( /\ c1.ino # <<>> /\ c2.ino # <<>>
      /\ c1 # c2 \/ calls[c1] > 1 )
      => c1.ino # c2.ino

\* ------------------------------------------------------ virtual directories as declared
\* Lists of entries as a caller writes them: the hash of a nested entry is the
\* one the caller declares, nothing recomputes it.  The first list declares for
\* the directory s the hash of its own sub-directory t.
DeclaredInputs ==
  { <<DirectoryEntry("s", hashEntries(<<>>),
                     <<DirectoryEntry("t", hashEntries(<<>>), <<>>)>>)>>,
    filter(hashDir(TreeA), "y"),
    <<FileEntry("x", Digest("a"))>>,
    <<>> }

\* enterVirtualDirectory(entries), lines 139-143, on a declared list.
EnterVirtualEntries(entries) ==
  /\ MayCall
  /\ issued' = issued + 1
  /\ LET hash == hashEntries(entries)
         st == enterHashedVirtualDirectory(Slots, hash, entries)
     IN /\ entering' = st.entering
        /\ ops' = st.ops
        /\ started' = st.started
        /\ calls' = Bump(calls, [NoCall EXCEPT !.op = "enterVirtualDirectory",
                                               !.pc = "await", !.hash = hash,
                                               !.entries = entries])
  /\ UNCHANGED <<inodes, cache, tmp, dest, writes, restarts>>
  /\ UNCHANGED <<hashing, hashed, located>>

\* What the event loop runs once the calls are made: the callbacks of the
\* routines and the continuations of the callers.
VirtualSteps ==
  \/ \E call \in Calls : AwaitSlot(call)
  \/ \E h \in DOMAIN ops : FileExists(h)
  \/ \E h \in DOMAIN ops, w \in BOOLEAN : FileCopyEnd(h, w)
  \/ \E ino \in DOMAIN inodes : WriterFinish(ino)
  \/ \E h \in DOMAIN ops : VirtualExists(h)
  \/ \E h \in DOMAIN ops : \E i \in ops[h].todo : VirtualRealizeFile(h, i)
  \/ \E h \in DOMAIN ops : \E i \in ops[h].todo : VirtualRealizeDirectory(h, i)

VirtualNext ==
  \/ \E entries \in DeclaredInputs : EnterVirtualEntries(entries)
  \/ \E c \in FileInputs : EnterFile(c)
  \/ VirtualSteps

\* Every callback that can run does run.
VirtualSpec == Init /\ [][VirtualNext]_vars /\ WF_vars(VirtualSteps)

\* C30: every enterVirtualDirectory call settles.  When no callback is left to
\* run, no call is still waiting; in particular no routine waits for its own
\* slot.
C30_VirtualSettles ==
  ~ENABLED VirtualSteps =>
    \A call \in CallsOf("enterVirtualDirectory") : call.pc = "done"

\* ------------------------------------------------------ hashDir settles once
\* The children of a hashDir call that have reported.
Reported(call) == {call.order[k] : k \in 1..Len(call.order)}

\* C31: a hashDir call settles at most once.  It is resolved exactly when it
\* has listed its directory and every child has reported, each once: the
\* counter is then zero and every index of the result is filled; the counter
\* is the number of children still to report and never below zero.  A call on
\* an empty directory resolves in its readdir callback with the empty list.
\* A settled call stays as it settled, and once a call has failed no later
\* completion of a child changes its result or its counter.
C31_SettlesOnce ==
  [][\A p \in HashCalls :
       LET call == hashing.calls[p]
           after == hashing'.calls[p]
           n == Len(call.files)
       IN /\ call.settled = "resolved" <=>
               /\ call.listed /\ NodeAt(hashing.root, p).kind = "dir"
               /\ Reported(call) = 1..n /\ Len(call.order) = n
          /\ call.settled = "resolved" =>
               call.expected = 0 /\ DOMAIN call.result = 1..n
          /\ call.listed /\ NodeAt(hashing.root, p).kind = "dir" =>
               /\ call.expected = n - Len(call.order)
               /\ Cardinality(Reported(call)) = Len(call.order)
               /\ DOMAIN call.result = Reported(call)
          /\ ~call.listed /\ after.listed /\ NodeAt(hashing.root, p) = SrcDir(<<>>) =>
               after.settled = "resolved" /\ after.result = <<>>
          /\ call.settled # "pending" => after.settled = call.settled
          /\ call.settled = "rejected" =>
               /\ after.result = call.result
               /\ after.expected = call.expected
               /\ after.order = call.order]_vars

\* A hashDir call failed after one child had reported, and another child,
\* a readable one, completed after the failure.
C31_CompletedAfterFailure ==
  \E p \in HashCalls :
    LET call == hashing.calls[p]
    IN /\ call.settled = "rejected"
       /\ Reported(call) # {}
       /\ \E i \in DOMAIN call.stage :
            /\ call.stage[i] = "done"
            /\ i \notin Reported(call)
            /\ HashChild(p, i).kind \in {"file", "dir"}

====
